---- MODULE Spec2Model ----
(***************************************************************************)
(* Verification model of polars_api_compat.pandas.column_object.Series,    *)
(* the adapter that exposes a pandas Series through the dataframe-API      *)
(* standard column interface.                                              *)
(*                                                                         *)
(* The state is a heap of native pandas Series objects (objs), each with   *)
(* a reference to a data buffer (bufs), an index, a name and a dtype, and  *)
(* one Series wrapper per native object.  Every Series method is an        *)
(* action that reads its receiver and appends the native object it wraps   *)
(* in its result.  The value-level operators below carry the names of the  *)
(* pandas / numpy calls the source makes.                                  *)
(***************************************************************************)
EXTENDS Integers, Sequences, FiniteSets, TLC

VARIABLES
    bufs,   \* data buffers: buffer id -> sequence of slots
    objs,   \* native pandas Series objects: [buf, index, name, dtype]
    hist,   \* per object: the call that made it and its content when made
    last    \* the most recent call and its outcome

vars == <<bufs, objs, hist, last>>

---------------------------------------------------------------------------
(* Bounds of the model *)

MaxLen == 3

MaxObjs == 3
MaxRows == 2

---------------------------------------------------------------------------
(* Slots of a column *)

\* an ordinary number
V(n) == [k |-> "v", n |-> n, f |-> 0, s |-> ""]

\* the floating NaN
NaN == [k |-> "nan", n |-> 0, f |-> 0, s |-> ""]

\* the missing marker (pd.NA of a masked array, the standard's null scalar)
NA == [k |-> "na", n |-> 0, f |-> 0, s |-> ""]

\* a boolean
B(b) == [k |-> "b", n |-> IF b THEN 1 ELSE 0, f |-> 0, s |-> ""]

\* a string
S(str) == [k |-> "s", n |-> 0, f |-> 0, s |-> str]

Truth(slot) == slot.k = "b" /\ slot.n = 1

Ordinary(slot) == slot.k \notin {"nan", "na"}

RangeIndex(n) == [i \in 1..n |-> i - 1]

Reverse(seq) == [i \in 1..Len(seq) |-> seq[Len(seq) + 1 - i]]

Broadcast(x, n) == [i \in 1..n |-> x]

SeqsUpTo(alphabet, n) == UNION {[1..m -> alphabet] : m \in 1..n}

---------------------------------------------------------------------------
(* pandas and numpy primitives the adapter delegates to.  A Series value   *)
(* is [vals, index, name, dtype].                                          *)

is_extension_array_dtype(dtype) == dtype \in {"Float64", "Int64", "boolean"}

\* how a scalar is stored into an array of the given dtype: a masked
\* (extension) array takes NaN and NA as its missing marker, a float64
\* array takes both as NaN
coerce(dtype, value) ==
    IF value.k \in {"nan", "na"}
    THEN IF is_extension_array_dtype(dtype) THEN NA
         ELSE IF dtype = "float64" THEN NaN ELSE value
    ELSE value

\* the slot is missing for the dtype: the mask of a masked array, NaN or
\* None of a numpy array
missing(dtype, slot) ==
    IF is_extension_array_dtype(dtype) THEN slot.k = "na"
    ELSE slot.k \in {"nan", "na"}

\* ser.isna()
isna(ser) ==
    [ser EXCEPT !.vals = [i \in DOMAIN ser.vals |-> B(missing(ser.dtype, ser.vals[i]))],
                !.dtype = "bool"]

\* ser.fillna(value)
fillna(ser, value) ==
    [ser EXCEPT !.vals = [i \in DOMAIN ser.vals |->
        IF missing(ser.dtype, ser.vals[i]) THEN coerce(ser.dtype, value)
        ELSE ser.vals[i]]]

\* ~ser on a boolean column (NA stays NA)
invert(ser) ==
    [ser EXCEPT !.vals = [i \in DOMAIN ser.vals |->
        IF ser.vals[i].k = "b" THEN B(~Truth(ser.vals[i])) ELSE ser.vals[i]]]

\* ser.where(cond, other): keep the slot where cond holds, else other
where(ser, cond, other) ==
    [ser EXCEPT !.vals = [i \in DOMAIN ser.vals |->
        IF Truth(cond.vals[i]) THEN ser.vals[i] ELSE coerce(ser.dtype, other)]]

\* np.isnan(ser): NaN is true; a masked slot stays masked
np_isnan(ser) ==
    [ser EXCEPT !.vals = [i \in DOMAIN ser.vals |->
        IF is_extension_array_dtype(ser.dtype) /\ ser.vals[i].k = "na" THEN NA
        ELSE B(ser.vals[i].k = "nan")],
                !.dtype = IF is_extension_array_dtype(ser.dtype) THEN "boolean" ELSE "bool"]

\* ser[mask] = value, mask a numpy boolean array
setitem(ser, mask, value) ==
    [ser EXCEPT !.vals = [i \in DOMAIN ser.vals |->
        IF Truth(mask.vals[i]) THEN coerce(ser.dtype, value) ELSE ser.vals[i]]]

\* one slot of a binary operator of the backend: comparison, arithmetic
\* or boolean combinator, with the left and the right operand in order
binop_slot(op, ext, a, b) ==
    IF op \in {"eq", "ne", "ge", "gt", "le", "lt"}
    THEN IF ext /\ (a.k = "na" \/ b.k = "na") THEN NA
         ELSE IF ~Ordinary(a) \/ ~Ordinary(b) THEN B(op = "ne")
         ELSE CASE op = "eq" -> B(a.n = b.n /\ a.s = b.s)
                [] op = "ne" -> B(~(a.n = b.n /\ a.s = b.s))
                [] op = "ge" -> B(a.n >= b.n)
                [] op = "gt" -> B(a.n > b.n)
                [] op = "le" -> B(a.n <= b.n)
                [] op = "lt" -> B(a.n < b.n)
    ELSE IF op \in {"and", "or"}
    THEN IF op = "and"
         THEN IF (a.k = "b" /\ ~Truth(a)) \/ (b.k = "b" /\ ~Truth(b)) THEN B(FALSE)
              ELSE IF a.k # "b" \/ b.k # "b" THEN NA ELSE B(TRUE)
         ELSE IF Truth(a) \/ Truth(b) THEN B(TRUE)
              ELSE IF a.k # "b" \/ b.k # "b" THEN NA ELSE B(FALSE)
    ELSE IF ext /\ (a.k = "na" \/ b.k = "na") THEN NA
         ELSE IF ~Ordinary(a) \/ ~Ordinary(b) THEN NaN
         ELSE IF a.k = "s" /\ b.k = "s" THEN S(a.s \o b.s)
         ELSE CASE op = "add" -> V(a.n + b.n)
                [] op = "sub" -> V(a.n - b.n)
                [] op = "mul" -> V(a.n * b.n)

\* ser <op> other, other an operand [vals, dtype] of the same length
binop(op, ser, other) ==
    LET ext == is_extension_array_dtype(ser.dtype)
               \/ is_extension_array_dtype(other.dtype)
    IN [vals  |-> [i \in DOMAIN ser.vals |->
                      binop_slot(op, ext, ser.vals[i], other.vals[i])],
        index |-> ser.index,
        name  |-> ser.name,
        dtype |-> IF op \in {"eq", "ne", "ge", "gt", "le", "lt", "and", "or"}
                  THEN IF ext THEN "boolean" ELSE "bool"
                  ELSE ser.dtype]

\* the rows of ser at the given positions, in that order (values and index)
rows(ser, pos) ==
    [ser EXCEPT !.vals = [i \in DOMAIN pos |-> ser.vals[pos[i]]],
                !.index = [i \in DOMAIN pos |-> ser.index[pos[i]]]]

\* the order of sort_values: values ascending, then NaN, then masked
\* slots; equal keys keep their order
sorts_before(vals, p, q) ==
    LET rank(x) == IF x.k = "na" THEN 2 ELSE IF x.k = "nan" THEN 1 ELSE 0
    IN \/ rank(vals[p]) < rank(vals[q])
       \/ /\ rank(vals[p]) = rank(vals[q])
          /\ \/ vals[p].n < vals[q].n
             \/ vals[p].n = vals[q].n /\ p < q

argsort(vals) ==
    [i \in DOMAIN vals |->
        CHOOSE p \in DOMAIN vals :
            Cardinality({q \in DOMAIN vals : sorts_before(vals, q, p)}) = i - 1]

\* ser.sort_values(): ascending, missing values last
sort_values(ser) == rows(ser, argsort(ser.vals))

\* ser.sort_values(ascending=False): descending, missing values last
sort_values_descending(ser) ==
    LET asc == argsort(ser.vals)
        present == SelectSeq(asc, LAMBDA p : Ordinary(ser.vals[p]))
        absent == SelectSeq(asc, LAMBDA p : ~Ordinary(ser.vals[p]))
    IN rows(ser, Reverse(present) \o absent)

\* index.to_series(name=name): the labels as values, and as index
index_to_series(index, name) ==
    [vals |-> [i \in DOMAIN index |-> V(index[i])], index |-> index,
     name |-> name, dtype |-> "int64"]

None == [some |-> FALSE, v |-> 0]

Some(x) == [some |-> TRUE, v |-> x]

\* the positions range(*slice(start, stop, step).indices(n)), from 1
slice_positions(n, start, stop, step) ==
    LET st == IF step.some THEN step.v ELSE 1
        lo == IF st > 0 THEN 0 ELSE -1
        hi == IF st > 0 THEN n ELSE n - 1
        clamp(x) == LET y == IF x < 0 THEN x + n ELSE x
                    IN IF y < lo THEN lo ELSE IF y > hi THEN hi ELSE y
        first == IF start.some THEN clamp(start.v) ELSE IF st > 0 THEN 0 ELSE n - 1
        bound == IF stop.some THEN clamp(stop.v) ELSE IF st > 0 THEN n ELSE -1
        span == IF st > 0 THEN bound - first ELSE first - bound
        step_abs == IF st > 0 THEN st ELSE -st
        count == IF span <= 0 THEN 0 ELSE (span + step_abs - 1) \div step_abs
    IN [i \in 1..count |-> first + (i - 1) * st + 1]

\* ser.iloc[start:stop:step]
iloc_slice(ser, start, stop, step) ==
    rows(ser, slice_positions(Len(ser.vals), start, stop, step))

\* ser.iloc[indices], indices a column of positions from 0
iloc_take(ser, indices) ==
    rows(ser, [i \in DOMAIN indices.vals |-> indices.vals[i].n + 1])

\* ser.loc[mask], mask a boolean column on the same index
loc_mask(ser, mask) ==
    rows(ser, SelectSeq([i \in DOMAIN ser.vals |-> i], LAMBDA p : Truth(mask.vals[p])))

\* ser.shift(offset): slots move down by offset, the gap is missing
shift_values(ser, offset) ==
    [ser EXCEPT !.vals = [i \in DOMAIN ser.vals |->
        IF i - offset \in DOMAIN ser.vals THEN ser.vals[i - offset]
        ELSE coerce(ser.dtype, NA)]]

\* ser.astype(dtype) between float64 and the masked Float64
astype(ser, dtype) ==
    [ser EXCEPT !.vals = [i \in DOMAIN ser.vals |-> coerce(dtype, ser.vals[i])],
                !.dtype = dtype]

RECURSIVE accumulate(_, _, _, _)
\* the running value of op over the slots 1..p of vals that are not
\* missing (<<>> when there is none); a NaN that is not missing stays
accumulate(op, dtype, vals, p) ==
    IF p = 0 THEN <<>>
    ELSE LET prev == accumulate(op, dtype, vals, p - 1)
             x == vals[p]
         IN IF missing(dtype, x) THEN prev
            ELSE IF Len(prev) = 0 THEN <<x>>
            ELSE IF prev[1].k = "nan" \/ x.k = "nan" THEN <<NaN>>
            ELSE CASE op = "sum" -> <<V(prev[1].n + x.n)>>
                   [] op = "prod" -> <<V(prev[1].n * x.n)>>
                   [] op = "max" -> <<IF x.n > prev[1].n THEN x ELSE prev[1]>>
                   [] op = "min" -> <<IF x.n < prev[1].n THEN x ELSE prev[1]>>

\* ser.cumsum(), cumprod(), cummax(), cummin(): missing slots are skipped
\* and stay missing
cumulate(op, ser) ==
    [ser EXCEPT !.vals = [p \in DOMAIN ser.vals |->
        IF missing(ser.dtype, ser.vals[p]) THEN ser.vals[p]
        ELSE accumulate(op, ser.dtype, ser.vals, p)[1]]]

cumsum(ser) == cumulate("sum", ser)

cumprod(ser) == cumulate("prod", ser)

\* cummax with skipna=False: nothing after a missing slot is defined
cummax_no_skip(ser) ==
    [ser EXCEPT !.vals = [p \in DOMAIN ser.vals |->
        IF \E q \in 1..p : missing(ser.dtype, ser.vals[q]) THEN coerce(ser.dtype, NA)
        ELSE accumulate("max", ser.dtype, ser.vals, p)[1]]]

cummax(ser) == cumulate("max", ser)

cummin(ser) == cumulate("min", ser)

\* Namespace.is_null(value): the value is the standard's null scalar
namespace_is_null(value) == value.k = "na"

---------------------------------------------------------------------------
(* Series methods, value level: the native Series a method hands to        *)
(* _from_series, computed from the native Series of the receiver.          *)

is_null(ser) == isna(ser)

\* is_nan without the extension-dtype branch
is_nan_generic(ser) == isna(ser)

is_nan(ser) ==
    IF is_extension_array_dtype(ser.dtype)
    THEN fillna(binop("ne", ser, ser), B(FALSE))
    ELSE isna(ser)

\* fill_nan with the generic missingness check as its mask
fill_nan_isna_mask(ser, value) ==
    [setitem(ser, isna(fillna(ser, NA)), value) EXCEPT !.index = ser.index]

fill_nan(ser, value) ==
    LET idx == ser.index
        mask == fillna(np_isnan(ser), B(FALSE))
        filled ==
            IF is_extension_array_dtype(ser.dtype)
            THEN IF namespace_is_null(value) THEN setitem(ser, mask, NA)
                 ELSE setitem(ser, mask, value)
            ELSE IF namespace_is_null(value) THEN setitem(ser, mask, NaN)
                 ELSE setitem(ser, mask, value)
    IN [filled EXCEPT !.index = idx]

\* fill_null with the mask not negated
fill_null_mask_not_negated(ser, value) ==
    [where(ser, isna(ser), value) EXCEPT !.index = ser.index, !.name = ser.name]

fill_null(ser, value) ==
    LET idx == ser.index
        filled ==
            IF is_extension_array_dtype(ser.dtype)
            THEN LET mask == binop("and", isna(ser),
                                   invert(fillna(binop("ne", ser, ser), B(FALSE))))
                 IN where(ser, invert(mask), value)
            ELSE fillna(ser, value)
    IN [filled EXCEPT !.index = idx, !.name = ser.name]

---------------------------------------------------------------------------
__eq__(ser, other) == binop("eq", ser, other)

__ne__(ser, other) == binop("ne", ser, other)

__ge__(ser, other) == binop("ge", ser, other)

__gt__(ser, other) == binop("gt", ser, other)

__le__(ser, other) == binop("le", ser, other)

__lt__(ser, other) == binop("lt", ser, other)

__and__(ser, other) == binop("and", ser, other)

__rand__(ser, other) == __and__(ser, other)

__or__(ser, other) == binop("or", ser, other)

__ror__(ser, other) == __or__(ser, other)

__add__(ser, other) == binop("add", ser, other)

__radd__(ser, other) == __add__(ser, other)

__sub__(ser, other) == binop("sub", ser, other)

__mul__(ser, other) == binop("mul", ser, other)

\* -1 * self.__sub__(other): int.__mul__ declines a Series, so Python
\* calls __rmul__(-1) of the difference, which is __mul__(-1)
__rsub__(ser, other) ==
    LET diff == __sub__(ser, other)
    IN __mul__(diff, [vals |-> Broadcast(V(-1), Len(diff.vals)), dtype |-> diff.dtype])

__rmul__(ser, other) == __mul__(ser, other)

\* sort with the descending order taken from the backend
sort_descending_by_backend(ser, ascending, nulls_position) ==
    IF ascending THEN sort_values(ser) ELSE sort_values_descending(ser)

sort(ser, ascending, nulls_position) ==
    IF ascending THEN sort_values(ser)
    ELSE iloc_slice(sort_values(ser), None, None, Some(-1))

sorted_indices(ser, ascending, nulls_position) ==
    IF ascending THEN index_to_series(sort_values(ser).index, ser.name)
    ELSE iloc_slice(index_to_series(sort_values(ser).index, ser.name),
                    None, None, Some(-1))

cumulative_sum(ser) == cumsum(ser)

cumulative_prod(ser) == cumprod(ser)

cumulative_max(ser) == cummax(ser)

cumulative_min(ser) == cummin(ser)

alias(ser, name) == [ser EXCEPT !.name = name]

shift(ser, offset) == shift_values(ser, offset)

cast(ser, pandas_dtype) == astype(ser, pandas_dtype)

slice_rows(ser, start, stop, step) == iloc_slice(ser, start, stop, step)

filter(ser, mask) == loc_mask(ser, mask)

take(ser, indices) == iloc_take(ser, indices)

---------------------------------------------------------------------------
(* Temporal values.  TLC's integers are 32 bits wide and the program's are  *)
(* 64 bits wide, so an instant is kept as whole seconds since 1970-01-01   *)
(* (floor, negative before the epoch) and the nanoseconds 0..999999999     *)
(* above them, and an integer result as Q(hi, lo, unit), denoting          *)
(* hi * PerSecond(unit) + lo.                                              *)

\* a datetime64[ns] slot
T(sec, nanos) == [k |-> "t", n |-> sec, f |-> nanos, s |-> ""]

\* a timedelta64[ns] slot
TD(sec, nanos) == [k |-> "td", n |-> sec, f |-> nanos, s |-> ""]

Q(hi, lo, unit) == [k |-> "q", n |-> hi, f |-> lo, s |-> unit]

PerSecond(unit) ==
    CASE unit = "s" -> 1
      [] unit = "ms" -> 1000
      [] unit = "us" -> 1000000
      [] unit = "ns" -> 1000000000

\* ser - datetime(1970, 1, 1): datetime64[ns] counts from that epoch
sub_epoch(ser) ==
    [ser EXCEPT !.vals = [i \in DOMAIN ser.vals |-> TD(ser.vals[i].n, ser.vals[i].f)],
                !.dtype = "timedelta64[ns]"]

\* 2^53 .. 2^60 nanoseconds, as <<seconds, nanoseconds>>
Float64Binades ==
    << <<9007199, 254740992>>, <<18014398, 509481984>>, <<36028797, 18963968>>,
       <<72057594, 37927936>>, <<144115188, 75855872>>, <<288230376, 151711744>>,
       <<576460752, 303423488>>, <<1152921504, 606846976>> >>

\* the spacing of float64 at the magnitude of the timedelta, in nanoseconds
float64_ulp(td) ==
    LET mag == IF td.n >= 0 THEN <<td.n, td.f>>
               ELSE IF td.f = 0 THEN <<-td.n, 0>>
               ELSE <<-td.n - 1, 1000000000 - td.f>>
        above == {b \in DOMAIN Float64Binades :
                     \/ Float64Binades[b][1] < mag[1]
                     \/ Float64Binades[b][1] = mag[1] /\ Float64Binades[b][2] <= mag[2]}
    IN 2 ^ Cardinality(above)

\* np.floor(td.total_seconds()): total_seconds() is the int64 nanosecond
\* count converted to float64 and divided by 10^9; the conversion rounds to
\* the float64 spacing (ties to even), which reaches the next whole second
\* when the timedelta is within half a spacing below it
floor_total_seconds(td) ==
    IF 2 * (1000000000 - td.f) <= float64_ulp(td) THEN td.n + 1 ELSE td.n

\* td.microseconds: the microseconds of the timedelta's sub-second part
dt_microseconds(td) == td.f \div 1000

\* td.nanoseconds: the nanoseconds below the last whole microsecond
dt_nanoseconds(td) == td.f % 1000

\* unix_timestamp with the milliseconds taken without the // 1000
unix_timestamp_ms_unscaled(ser, time_unit) ==
    LET result == sub_epoch(ser)
    IN [vals  |-> [i \in DOMAIN result.vals |->
                      Q(floor_total_seconds(result.vals[i]),
                        IF time_unit = "s" THEN 0
                        ELSE IF time_unit = "ns"
                        THEN dt_microseconds(result.vals[i]) * 1000
                                + dt_nanoseconds(result.vals[i])
                        ELSE dt_microseconds(result.vals[i]),
                        time_unit)],
        index |-> ser.index,
        name  |-> ser.name,
        dtype |-> IF time_unit = "ns" THEN "Int64" ELSE "float64"]

unix_timestamp(ser, time_unit) ==
    LET result == sub_epoch(ser)
        stamp(td) ==
            CASE time_unit = "s" ->
                    Q(floor_total_seconds(td), 0, "s")
              [] time_unit = "ms" ->
                    Q(floor_total_seconds(td), dt_microseconds(td) \div 1000, "ms")
              [] time_unit = "us" ->
                    Q(floor_total_seconds(td), dt_microseconds(td), "us")
              [] time_unit = "ns" ->
                    Q(floor_total_seconds(td),
                      dt_microseconds(td) * 1000 + dt_nanoseconds(td), "ns")
    IN [vals  |-> [i \in DOMAIN result.vals |-> stamp(result.vals[i])],
        index |-> ser.index,
        name  |-> ser.name,
        dtype |-> IF time_unit = "ns" THEN "Int64" ELSE "float64"]

---------------------------------------------------------------------------
(* The heap *)

\* self.column: the native Series a wrapper holds, read through its buffer
Native(i) ==
    [vals  |-> bufs[objs[i].buf],
     index |-> objs[i].index,
     name  |-> objs[i].name,
     dtype |-> objs[i].dtype]

NoArg ==
    [sc |-> NA, col |-> 0, flag |-> TRUE, str |-> "", n |-> 0,
     sl |-> <<[some |-> FALSE, v |-> 0], [some |-> FALSE, v |-> 0], [some |-> FALSE, v |-> 0]>>]

\* a copy that shares the buffer it is taken from
copy_shared(b) == b

\* series.copy(): a new buffer
copy(b) == Len(bufs) + 1

\* the buffers with buffer b holding vals, b an existing or the next new id
Store(b, vals) ==
    IF b > Len(bufs) THEN Append(bufs, vals) ELSE [bufs EXCEPT ![b] = vals]

\* Series(series.rename(series.name, copy=False)): a new native object on
\* buffer b, and the wrapper around it
_from_series(op, r, arg, b, ser) ==
    /\ ser.name # ""
    /\ objs' = Append(objs, [buf |-> b, index |-> ser.index,
                             name |-> ser.name, dtype |-> ser.dtype])
    /\ hist' = Append(hist, [op |-> op, recv |-> r, arg |-> arg, made |-> ser])
    /\ last' = [op |-> op, recv |-> r, arg |-> arg, outcome |-> "ok",
                result |-> Len(objs) + 1]

\* a method whose backend call builds a new native value
Return(op, r, arg, ser) ==
    /\ bufs' = Store(Len(bufs) + 1, ser.vals)
    /\ _from_series(op, r, arg, Len(bufs) + 1, ser)

\* a method that raises: nothing is built
Raise(op, r, arg, exc) ==
    /\ last' = [op |-> op, recv |-> r, arg |-> arg, outcome |-> exc, result |-> 0]
    /\ UNCHANGED <<bufs, objs, hist>>

\* a run is followed while it has made fewer than MaxObjs objects and up to
\* its first exception (an exception leaves the heap as it was, so what can
\* follow it is what could follow the state before it)
Room == Len(objs) < MaxObjs /\ last.outcome = "ok"

Wrappers == DOMAIN objs

IsFloat(i) == objs[i].dtype \in {"float64", "Float64"}

FillValues == {V(1), V(9), NaN, NA}

---------------------------------------------------------------------------
(* Series methods, as actions on the heap *)

Series_is_null(r) ==
    /\ Room
    /\ Return("is_null", r, NoArg, is_null(Native(r)))

Series_is_nan(r) ==
    /\ Room
    /\ IsFloat(r)
    /\ Return("is_nan", r, NoArg, is_nan(Native(r)))

Series_fill_nan(r, value) ==
    /\ Room
    /\ IsFloat(r)
    /\ LET b == copy(objs[r].buf)
           ser == fill_nan(Native(r), value)
       IN /\ bufs' = Store(b, ser.vals)
          /\ _from_series("fill_nan", r, [NoArg EXCEPT !.sc = value], b, ser)

Series_fill_null(r, value) ==
    /\ Room
    /\ IsFloat(r)
    /\ ~namespace_is_null(value)
    /\ Return("fill_null", r, [NoArg EXCEPT !.sc = value], fill_null(Native(r), value))

---------------------------------------------------------------------------
NumericDtypes == {"float64", "Float64", "int64"}

BoolDtypes == {"bool", "boolean"}

Family(dtype) ==
    IF dtype \in NumericDtypes THEN "number"
    ELSE IF dtype \in BoolDtypes THEN "bool"
    ELSE IF dtype = "object" THEN "str" ELSE "time"

IsNumeric(i) == objs[i].dtype \in NumericDtypes

IsBool(i) == objs[i].dtype \in BoolDtypes

Scalar(sc) == [NoArg EXCEPT !.sc = sc]

Column(o) == [NoArg EXCEPT !.col = o]

\* the right-hand operands offered to a binary method of wrapper r: a
\* scalar of the column's element type, or any column of that type
Operands(r) ==
    {Scalar(sc) : sc \in CASE Family(objs[r].dtype) = "number" -> {V(2)}
                           [] Family(objs[r].dtype) = "bool" -> {B(TRUE), B(FALSE)}
                           [] Family(objs[r].dtype) = "str" -> {S("x")}
                           [] OTHER -> {}}
    \cup {Column(o) : o \in {w \in Wrappers : Family(objs[w].dtype) = Family(objs[r].dtype)}}

\* validate_column_comparand accepts the operand: a scalar, or a column on
\* the index of the receiver
Comparable(r, arg) == arg.col = 0 \/ objs[arg.col].index = objs[r].index

\* validate_column_comparand(self, other): the native value of a column,
\* a scalar as it is (here spread over the rows of the receiver)
validate_column_comparand(r, arg) ==
    IF arg.col = 0
    THEN [vals |-> Broadcast(arg.sc, Len(objs[r].index)), dtype |-> objs[r].dtype]
    ELSE Native(arg.col)

\* a binary method: validate the operand, call the backend, wrap
BinaryCall(op, r, arg, ser) ==
    IF Comparable(r, arg) THEN Return(op, r, arg, ser)
    ELSE Raise(op, r, arg, "ValueError")

Series__eq__(r, arg) ==
    /\ Room
    /\ BinaryCall("__eq__", r, arg, __eq__(Native(r), validate_column_comparand(r, arg)))

Series__ne__(r, arg) ==
    /\ Room
    /\ BinaryCall("__ne__", r, arg, __ne__(Native(r), validate_column_comparand(r, arg)))

Series__ge__(r, arg) ==
    /\ Room
    /\ IsNumeric(r)
    /\ BinaryCall("__ge__", r, arg, __ge__(Native(r), validate_column_comparand(r, arg)))

Series__gt__(r, arg) ==
    /\ Room
    /\ IsNumeric(r)
    /\ BinaryCall("__gt__", r, arg, __gt__(Native(r), validate_column_comparand(r, arg)))

Series__le__(r, arg) ==
    /\ Room
    /\ IsNumeric(r)
    /\ BinaryCall("__le__", r, arg, __le__(Native(r), validate_column_comparand(r, arg)))

Series__lt__(r, arg) ==
    /\ Room
    /\ IsNumeric(r)
    /\ BinaryCall("__lt__", r, arg, __lt__(Native(r), validate_column_comparand(r, arg)))

Series__and__(r, arg) ==
    /\ Room
    /\ IsBool(r)
    /\ BinaryCall("__and__", r, arg, __and__(Native(r), validate_column_comparand(r, arg)))

Series__rand__(r, arg) ==
    /\ Room
    /\ IsBool(r)
    /\ BinaryCall("__rand__", r, arg, __rand__(Native(r), validate_column_comparand(r, arg)))

Series__or__(r, arg) ==
    /\ Room
    /\ IsBool(r)
    /\ BinaryCall("__or__", r, arg, __or__(Native(r), validate_column_comparand(r, arg)))

Series__ror__(r, arg) ==
    /\ Room
    /\ IsBool(r)
    /\ BinaryCall("__ror__", r, arg, __ror__(Native(r), validate_column_comparand(r, arg)))

Series__add__(r, arg) ==
    /\ Room
    /\ ~IsBool(r)
    /\ BinaryCall("__add__", r, arg, __add__(Native(r), validate_column_comparand(r, arg)))

Series__radd__(r, arg) ==
    /\ Room
    /\ ~IsBool(r)
    /\ BinaryCall("__radd__", r, arg, __radd__(Native(r), validate_column_comparand(r, arg)))

Series__sub__(r, arg) ==
    /\ Room
    /\ IsNumeric(r)
    /\ BinaryCall("__sub__", r, arg, __sub__(Native(r), validate_column_comparand(r, arg)))

Series__rsub__(r, arg) ==
    /\ Room
    /\ IsNumeric(r)
    /\ BinaryCall("__rsub__", r, arg, __rsub__(Native(r), validate_column_comparand(r, arg)))

Series__mul__(r, arg) ==
    /\ Room
    /\ IsNumeric(r)
    /\ BinaryCall("__mul__", r, arg, __mul__(Native(r), validate_column_comparand(r, arg)))

Series__rmul__(r, arg) ==
    /\ Room
    /\ IsNumeric(r)
    /\ BinaryCall("__rmul__", r, arg, __rmul__(Native(r), validate_column_comparand(r, arg)))

\* __rtruediv__ handing the operand to the division of the backend
Series__rtruediv__delegating(r, arg) ==
    /\ Room
    /\ BinaryCall("__rtruediv__", r, arg, __mul__(Native(r), validate_column_comparand(r, arg)))

Series__rtruediv__(r, arg) ==
    /\ Room
    /\ Raise("__rtruediv__", r, arg, "NotImplementedError")

Series__rfloordiv__(r, arg) ==
    /\ Room
    /\ Raise("__rfloordiv__", r, arg, "NotImplementedError")

Series__rpow__(r, arg) ==
    /\ Room
    /\ Raise("__rpow__", r, arg, "NotImplementedError")

Series__rmod__(r, arg) ==
    /\ Room
    /\ Raise("__rmod__", r, arg, "NotImplementedError")

Series_unique_indices(r) ==
    /\ Room
    /\ Raise("unique_indices", r, NoArg, "NotImplementedError")

NullsPositions == {"first", "last"}

Series_sort(r, ascending, nulls_position) ==
    /\ Room
    /\ IsNumeric(r)
    /\ Return("sort", r, [NoArg EXCEPT !.flag = ascending, !.str = nulls_position],
              sort(Native(r), ascending, nulls_position))

Series_sorted_indices(r, ascending, nulls_position) ==
    /\ Room
    /\ IsNumeric(r)
    /\ Return("sorted_indices", r, [NoArg EXCEPT !.flag = ascending, !.str = nulls_position],
              sorted_indices(Native(r), ascending, nulls_position))

Series_cumulative_sum(r) ==
    /\ Room
    /\ IsFloat(r)
    /\ Return("cumulative_sum", r, NoArg, cumulative_sum(Native(r)))

Series_cumulative_prod(r) ==
    /\ Room
    /\ IsFloat(r)
    /\ Return("cumulative_prod", r, NoArg, cumulative_prod(Native(r)))

Series_cumulative_max(r) ==
    /\ Room
    /\ IsFloat(r)
    /\ Return("cumulative_max", r, NoArg, cumulative_max(Native(r)))

Series_cumulative_min(r) ==
    /\ Room
    /\ IsFloat(r)
    /\ Return("cumulative_min", r, NoArg, cumulative_min(Native(r)))

\* ser.rename(name, copy=False) builds no buffer: the result shares the
\* receiver's
Series_alias(r, name) ==
    /\ Room
    /\ bufs' = bufs
    /\ _from_series("alias", r, [NoArg EXCEPT !.str = name], objs[r].buf,
                    alias(Native(r), name))

Series_shift(r, offset) ==
    /\ Room
    /\ IsFloat(r)
    /\ Return("shift", r, [NoArg EXCEPT !.n = offset], shift(Native(r), offset))

Series_cast(r, pandas_dtype) ==
    /\ Room
    /\ IsFloat(r)
    /\ Return("cast", r, [NoArg EXCEPT !.str = pandas_dtype], cast(Native(r), pandas_dtype))

Slices == {<<None, None, Some(-1)>>, <<Some(1), None, None>>, <<None, Some(-1), None>>}

Series_slice_rows(r, sl) ==
    /\ Room
    /\ Return("slice_rows", r, [NoArg EXCEPT !.sl = sl],
              slice_rows(Native(r), sl[1], sl[2], sl[3]))

Series_filter(r, mask) ==
    /\ Room
    /\ objs[mask].dtype = "bool"
    /\ IF Comparable(r, Column(mask))
       THEN Return("filter", r, Column(mask),
                   filter(Native(r), validate_column_comparand(r, Column(mask))))
       ELSE Raise("filter", r, Column(mask), "ValueError")

Series_take(r, indices) ==
    /\ Room
    /\ objs[indices].dtype = "int64"
    /\ IF ~Comparable(r, Column(indices))
       THEN Raise("take", r, Column(indices), "ValueError")
       ELSE IF \E p \in DOMAIN Native(indices).vals :
                    Native(indices).vals[p].n + 1 \notin DOMAIN Native(r).vals
       THEN Raise("take", r, Column(indices), "IndexError")
       ELSE Return("take", r, Column(indices),
                   take(Native(r), validate_column_comparand(r, Column(indices))))

\* a Python str as the sequence of its characters
Characters(str) ==
    CASE str = "day" -> <<"d", "a", "y">>
      [] str = "hour" -> <<"h", "o", "u", "r">>
      [] str = "minute" -> <<"m", "i", "n", "u", "t", "e">>
      [] str = "second" -> <<"s", "e", "c", "o", "n", "d">>
      [] str = "millisecond" -> <<"m", "i", "l", "l", "i", "s", "e", "c", "o", "n", "d">>
      [] str = "microsecond" -> <<"m", "i", "c", "r", "o", "s", "e", "c", "o", "n", "d">>
      [] str = "nanosecond" -> <<"n", "a", "n", "o", "s", "e", "c", "o", "n", "d">>
      [] str = "D" -> <<"D">>
      [] str = "H" -> <<"H">>
      [] str = "T" -> <<"T">>
      [] str = "S" -> <<"S">>
      [] str = "ms" -> <<"m", "s">>
      [] str = "us" -> <<"u", "s">>
      [] str = "ns" -> <<"n", "s">>

\* str(n) for one decimal digit
Digits(n) == <<<<"1", "2", "3", "4", "5", "6", "7", "8", "9">>[n]>>

RECURSIVE replace(_, _, _)
\* str.replace(old, new): every occurrence of old, found from the left and
\* not overlapping, becomes new
replace(str, old, new) ==
    IF Len(str) < Len(old) THEN str
    ELSE IF SubSeq(str, 1, Len(old)) = old
         THEN new \o replace(SubSeq(str, Len(old) + 1, Len(str)), old, new)
         ELSE <<Head(str)>> \o replace(Tail(str), old, new)

\* the offset aliases the backend knows, with their length: in whole
\* seconds, or in nanoseconds below a second
OffsetAliases ==
    {[alias |-> Characters("D"), sec |-> 86400, nanos |-> 0],
     [alias |-> Characters("H"), sec |-> 3600, nanos |-> 0],
     [alias |-> Characters("T"), sec |-> 60, nanos |-> 0],
     [alias |-> Characters("S"), sec |-> 1, nanos |-> 0],
     [alias |-> Characters("ms"), sec |-> 0, nanos |-> 1000000],
     [alias |-> Characters("us"), sec |-> 0, nanos |-> 1000],
     [alias |-> Characters("ns"), sec |-> 0, nanos |-> 1]}

\* the counts a frequency is written with
Counts == {1, 2}

\* pandas to_offset(freq): a count and an alias, or an invalid frequency
to_offset(freq) ==
    LET parses == {[valid |-> TRUE, n |-> n, sec |-> a.sec, nanos |-> a.nanos] :
                      <<n, a>> \in {x \in Counts \X OffsetAliases :
                                        freq = Digits(x[1]) \o x[2].alias}}
    IN IF parses = {} THEN [valid |-> FALSE, n |-> 0, sec |-> 0, nanos |-> 0]
       ELSE CHOOSE o \in parses : TRUE

\* ser.dt.floor(offset): every instant down to a multiple of the offset,
\* counted from the epoch (the offsets above divide the second or are
\* whole seconds)
dt_floor(ser, offset) ==
    [ser EXCEPT !.vals = [i \in DOMAIN ser.vals |->
        IF offset.sec > 0
        THEN T((ser.vals[i].n \div (offset.n * offset.sec)) * (offset.n * offset.sec), 0)
        ELSE T(ser.vals[i].n,
               ser.vals[i].f - (ser.vals[i].f % (offset.n * offset.nanos)))]]

\* the frequency Series.floor hands to the backend
floor_frequency(frequency) ==
    LET r1 == replace(frequency, Characters("day"), Characters("D"))
        r2 == replace(r1, Characters("hour"), Characters("H"))
        r3 == replace(r2, Characters("minute"), Characters("T"))
        r4 == replace(r3, Characters("second"), Characters("S"))
        r5 == replace(r4, Characters("millisecond"), Characters("ms"))
        r6 == replace(r5, Characters("microsecond"), Characters("us"))
    IN replace(r6, Characters("nanosecond"), Characters("ns"))

floor(ser, frequency) == dt_floor(ser, to_offset(floor_frequency(frequency)))

\* floor(str(n) + unit): the backend raises ValueError for a frequency it
\* cannot parse
Series_floor(r, n, unit) ==
    /\ Room
    /\ objs[r].dtype = "datetime64[ns]"
    /\ LET frequency == Digits(n) \o Characters(unit)
           arg == [NoArg EXCEPT !.n = n, !.str = unit]
       IN IF to_offset(floor_frequency(frequency)).valid
          THEN Return("floor", r, arg, floor(Native(r), frequency))
          ELSE Raise("floor", r, arg, "ValueError")

TimeUnits == {"s", "ms", "us", "ns"}

Series_unix_timestamp(r, time_unit) ==
    /\ Room
    /\ objs[r].dtype = "datetime64[ns]"
    /\ IF time_unit \in TimeUnits
       THEN Return("unix_timestamp", r, [NoArg EXCEPT !.str = time_unit],
                   unix_timestamp(Native(r), time_unit))
       ELSE Raise("unix_timestamp", r, [NoArg EXCEPT !.str = time_unit],
                  "AssertionError")

---------------------------------------------------------------------------
(* Specifications *)

FloatSlots(dtype) ==
    IF is_extension_array_dtype(dtype) THEN {V(1), V(2), NaN, NA} ELSE {V(1), V(2), NaN}

\* Series(series, api_version=...): one column, freshly built
Construct(ser) ==
    /\ ser.name # ""
    /\ bufs = <<ser.vals>>
    /\ objs = <<[buf |-> 1, index |-> ser.index, name |-> ser.name, dtype |-> ser.dtype]>>
    /\ hist = <<[op |-> "init", recv |-> 0, arg |-> NoArg, made |-> ser]>>
    /\ last = [op |-> "init", recv |-> 0, arg |-> NoArg, outcome |-> "ok", result |-> 1]

FloatColumns ==
    UNION {{[vals |-> vs, index |-> RangeIndex(Len(vs)), name |-> "a", dtype |-> d] :
                vs \in SeqsUpTo(FloatSlots(d), MaxLen)} : d \in {"float64", "Float64"}}

InitNull == \E ser \in FloatColumns : Construct(ser)

NextNull ==
    \/ \E r \in Wrappers : Series_is_null(r)
    \/ \E r \in Wrappers : Series_is_nan(r)
    \/ \E r \in Wrappers, v \in FillValues : Series_fill_nan(r, v)
    \/ \E r \in Wrappers, v \in FillValues : Series_fill_null(r, v)

SpecNull == InitNull /\ [][NextNull]_vars

---------------------------------------------------------------------------
(* Claims about null and NaN handling *)

AllFalse(ser) == \A p \in DOMAIN ser.vals : ser.vals[p] = B(FALSE)

Made(op) == {i \in Wrappers : hist[i].op = op}

HasKinds(ser, kinds) == \A k \in kinds : \E p \in DOMAIN ser.vals : ser.vals[p].k = k

\* the slots of res that were not null in the receiver c are those of c
NonNullKept(c, res) ==
    \A p \in DOMAIN c.vals :
        ~Truth(is_null(c).vals[p]) => res.vals[p] = c.vals[p]

\* C1 as stated: for every column c and every non-null scalar v,
\* c.fill_null(v).is_null() is false in every slot and every slot that was
\* not null in c is unchanged.
C1_FillNullAnyNonNull ==
    \A i \in Made("fill_null") :
        ~namespace_is_null(hist[i].arg.sc) =>
            /\ AllFalse(is_null(Native(i)))
            /\ NonNullKept(Native(hist[i].recv), Native(i))

\* C1 amended: the same for every scalar v that is neither null nor NaN.
C1_FillNullOrdinary ==
    \A i \in Made("fill_null") :
        Ordinary(hist[i].arg.sc) =>
            /\ AllFalse(is_null(Native(i)))
            /\ NonNullKept(Native(hist[i].recv), Native(i))

\* C1 witness: fill_null with an ordinary value has run on a nullable column
\* that holds a value, a true null and a NaN.
C1_Witness ==
    \E i \in Made("fill_null") :
        /\ Ordinary(hist[i].arg.sc)
        /\ objs[hist[i].recv].dtype = "Float64"
        /\ HasKinds(Native(hist[i].recv), {"v", "na", "nan"})

\* C2: on an extension-typed column no slot is true in both is_nan() and
\* is_null(); a true-null slot is true only in is_null(), a NaN slot only in
\* is_nan().
C2_NanNullDisjoint ==
    \A i \in Made("is_nan"), j \in Made("is_null") :
        (hist[i].recv = hist[j].recv
            /\ is_extension_array_dtype(objs[hist[i].recv].dtype)) =>
            LET c == Native(hist[i].recv)
                nan == Native(i)
                null == Native(j)
            IN \A p \in DOMAIN c.vals :
                /\ ~(Truth(nan.vals[p]) /\ Truth(null.vals[p]))
                /\ c.vals[p].k = "na" => (Truth(null.vals[p]) /\ nan.vals[p] = B(FALSE))
                /\ c.vals[p].k = "nan" => (Truth(nan.vals[p]) /\ null.vals[p] = B(FALSE))

\* C2 witness: is_nan and is_null have both run on a nullable column with a
\* true null and a NaN.
C2_Witness ==
    \E i \in Made("is_nan"), j \in Made("is_null") :
        /\ hist[i].recv = hist[j].recv
        /\ objs[hist[i].recv].dtype = "Float64"
        /\ HasKinds(Native(hist[i].recv), {"na", "nan"})

\* the slots of kind k of c hold the fill value in res (when it is an
\* ordinary value) and every other slot of res is the slot of c
FillsExactly(c, res, k, value) ==
    \A p \in DOMAIN c.vals :
        IF c.vals[p].k = k
        THEN Ordinary(value) => res.vals[p] = value
        ELSE res.vals[p] = c.vals[p]

\* C3: on an extension-typed column fill_nan(v) changes exactly the NaN
\* slots (true nulls and ordinary values stay), and fill_null(v) changes
\* exactly the true-null slots (NaN slots and ordinary values stay).
C3_FillPreservesDistinction ==
    /\ \A i \in Made("fill_nan") :
        is_extension_array_dtype(objs[hist[i].recv].dtype) =>
            FillsExactly(Native(hist[i].recv), Native(i), "nan", hist[i].arg.sc)
    /\ \A i \in Made("fill_null") :
        is_extension_array_dtype(objs[hist[i].recv].dtype) =>
            FillsExactly(Native(hist[i].recv), Native(i), "na", hist[i].arg.sc)

\* C3 witness: fill_nan has run with an ordinary value on a nullable
\* column that holds a value, a true null and a NaN, and fill_null on its
\* result.
C3_Witness ==
    \E i \in Made("fill_nan"), j \in Made("fill_null") :
        /\ hist[j].recv = i
        /\ Ordinary(hist[i].arg.sc) /\ Ordinary(hist[j].arg.sc)
        /\ objs[hist[i].recv].dtype = "Float64"
        /\ HasKinds(Native(hist[i].recv), {"v", "na", "nan"})


\* the column a = [1, 3, None, 2] of the tests, as a float64 column (None
\* is NaN) and as a nullable column (None is masked)
ExampleColumns ==
    {[vals |-> <<V(1), V(3), coerce(d, NA), V(2)>>, index |-> RangeIndex(4),
      name |-> "a", dtype |-> d] : d \in {"float64", "Float64"}}

InitOrder == \E ser \in FloatColumns \cup ExampleColumns : Construct(ser)

NextOrder ==
    \/ \E r \in Wrappers, asc \in BOOLEAN, np \in NullsPositions : Series_sort(r, asc, np)
    \/ \E r \in Wrappers, asc \in BOOLEAN, np \in NullsPositions :
            Series_sorted_indices(r, asc, np)
    \/ \E r \in Wrappers : Series_cumulative_max(r)
    \/ \E r \in Wrappers, sl \in Slices : Series_slice_rows(r, sl)

SpecOrder == InitOrder /\ [][NextOrder]_vars

---------------------------------------------------------------------------
(* Cumulative maximum and sorting *)

MaxOf(numbers) == CHOOSE m \in numbers : \A x \in numbers : x <= m

\* the positions among ps whose slot of c is not null
NonNullAt(c, ps) == {q \in ps : ~Truth(is_null(c).vals[q])}

\* res keeps the null slots of c and holds, at a non-null position p, the
\* greatest non-null value of c among the positions span(p)
RunningMax(c, res, span(_)) ==
    /\ DOMAIN res.vals = DOMAIN c.vals
    /\ \A p \in DOMAIN c.vals :
        IF Truth(is_null(c).vals[p]) THEN Truth(is_null(res).vals[p])
        ELSE res.vals[p] = V(MaxOf({c.vals[q].n : q \in NonNullAt(c, span(p))}))

\* every slot of c is a number or null
NumbersAndNulls(c) ==
    \A p \in DOMAIN c.vals : Ordinary(c.vals[p]) \/ Truth(is_null(c).vals[p])

IsReversal(i) == hist[i].op = "slice_rows" /\ hist[i].arg.sl = <<None, None, Some(-1)>>

IsExample(c) == Len(c.vals) = 4 /\ c.vals[1] = V(1) /\ c.vals[2] = V(3)
                /\ Truth(is_null(c).vals[3]) /\ c.vals[4] = V(2)

\* C7: cumulative_max keeps each null slot null and gives at each non-null
\* position the greatest non-null value at or before it; on the reversed
\* column, reversed again, it gives the greatest non-null value at or
\* after the position; for a = [1, 3, None, 2] these are [1, 3, None, 3]
\* and [3, 3, None, 2].  Stated for columns of numbers and nulls.
C7_CumulativeMaxSkipsNulls ==
    \A i \in Made("cumulative_max") :
        LET r == hist[i].recv
            res == hist[i].made
        IN /\ NumbersAndNulls(hist[r].made) =>
                RunningMax(hist[r].made, res, LAMBDA p : 1..p)
           /\ IsExample(hist[r].made) =>
                /\ res.vals[1] = V(1) /\ res.vals[2] = V(3)
                /\ Truth(is_null(res).vals[3]) /\ res.vals[4] = V(3)
           /\ IsReversal(r) /\ NumbersAndNulls(hist[hist[r].recv].made) =>
                LET c == hist[hist[r].recv].made
                    back == [res EXCEPT !.vals = Reverse(res.vals)]
                IN /\ RunningMax(c, back, LAMBDA p : p..Len(c.vals))
                   /\ IsExample(c) =>
                        /\ back.vals[1] = V(3) /\ back.vals[2] = V(3)
                        /\ Truth(is_null(back).vals[3]) /\ back.vals[4] = V(2)

\* the reverse-order cumulative maximum of the example column has been taken
C7_Witness ==
    \E i \in Made("cumulative_max") :
        /\ IsReversal(hist[i].recv)
        /\ IsExample(hist[hist[hist[i].recv].recv].made)
        /\ hist[i].made.vals[1] = V(2)

\* C8: for every column and every nulls_position, sort(ascending=True)
\* reversed is sort(ascending=False) slot for slot, and likewise for
\* sorted_indices.
C8_DescendingIsReversedAscending ==
    \A op \in {"sort", "sorted_indices"} :
        \A i \in Made(op), j \in Made(op) :
            /\ hist[i].recv = hist[j].recv
            /\ hist[i].arg.flag /\ ~hist[j].arg.flag
            => /\ Reverse(hist[i].made.vals) = hist[j].made.vals
               /\ Reverse(hist[i].made.index) = hist[j].made.index

\* a column with a repeated value and a null, sorted both ways
C8_Witness ==
    \E i \in Made("sort"), j \in Made("sort") :
        /\ hist[i].recv = 1 /\ hist[j].recv = 1
        /\ hist[i].arg.flag /\ ~hist[j].arg.flag
        /\ hist[i].arg.str = "first" /\ hist[j].arg.str = "last"
        /\ LET c == hist[1].made
           IN /\ Len(c.vals) = 3
              /\ \E p \in 1..3, q \in 1..3 :
                    p # q /\ Ordinary(c.vals[p]) /\ c.vals[p] = c.vals[q]
              /\ \E p \in 1..3 : Truth(is_null(c).vals[p])

\* the element values a column of each dtype is built from
Slots(dtype) ==
    CASE dtype = "float64" -> {V(1), V(2), NaN}
      [] dtype = "Float64" -> {V(1), NaN, NA}
      [] dtype = "bool"    -> {B(TRUE), B(FALSE)}
      [] dtype = "boolean" -> {B(TRUE), NA}
      [] dtype = "object"  -> {S("a"), S("b")}

Columns ==
    UNION {{[vals |-> vs, index |-> RangeIndex(Len(vs)), name |-> "a", dtype |-> d] :
                vs \in SeqsUpTo(Slots(d), MaxRows)} :
           d \in {"float64", "Float64", "bool", "boolean", "object"}}

Init == \E ser \in Columns : Construct(ser)

Next ==
    \/ \E r \in Wrappers : \E arg \in Operands(r) : Series__eq__(r, arg)
    \/ \E r \in Wrappers : \E arg \in Operands(r) : Series__ne__(r, arg)
    \/ \E r \in Wrappers : \E arg \in Operands(r) : Series__ge__(r, arg)
    \/ \E r \in Wrappers : \E arg \in Operands(r) : Series__gt__(r, arg)
    \/ \E r \in Wrappers : \E arg \in Operands(r) : Series__le__(r, arg)
    \/ \E r \in Wrappers : \E arg \in Operands(r) : Series__lt__(r, arg)
    \/ \E r \in Wrappers : \E arg \in Operands(r) : Series__and__(r, arg)
    \/ \E r \in Wrappers : \E arg \in Operands(r) : Series__rand__(r, arg)
    \/ \E r \in Wrappers : \E arg \in Operands(r) : Series__or__(r, arg)
    \/ \E r \in Wrappers : \E arg \in Operands(r) : Series__ror__(r, arg)
    \/ \E r \in Wrappers : \E arg \in Operands(r) : Series__add__(r, arg)
    \/ \E r \in Wrappers : \E arg \in Operands(r) : Series__radd__(r, arg)
    \/ \E r \in Wrappers : \E arg \in Operands(r) : Series__sub__(r, arg)
    \/ \E r \in Wrappers : \E arg \in Operands(r) : Series__rsub__(r, arg)
    \/ \E r \in Wrappers : \E arg \in Operands(r) : Series__mul__(r, arg)
    \/ \E r \in Wrappers : \E arg \in Operands(r) : Series__rmul__(r, arg)
    \/ \E r \in Wrappers : \E arg \in Operands(r) : Series__rtruediv__(r, arg)
    \/ \E r \in Wrappers : \E arg \in Operands(r) : Series__rfloordiv__(r, arg)
    \/ \E r \in Wrappers : \E arg \in Operands(r) : Series__rpow__(r, arg)
    \/ \E r \in Wrappers : \E arg \in Operands(r) : Series__rmod__(r, arg)
    \/ \E r \in Wrappers : Series_unique_indices(r)
    \/ \E r \in Wrappers : Series_is_null(r)
    \/ \E r \in Wrappers : Series_is_nan(r)
    \/ \E r \in Wrappers, v \in FillValues : Series_fill_nan(r, v)
    \/ \E r \in Wrappers, v \in FillValues : Series_fill_null(r, v)
    \/ \E r \in Wrappers, asc \in BOOLEAN, np \in NullsPositions : Series_sort(r, asc, np)
    \/ \E r \in Wrappers, asc \in BOOLEAN, np \in NullsPositions :
            Series_sorted_indices(r, asc, np)
    \/ \E r \in Wrappers : Series_cumulative_sum(r)
    \/ \E r \in Wrappers : Series_cumulative_prod(r)
    \/ \E r \in Wrappers : Series_cumulative_max(r)
    \/ \E r \in Wrappers : Series_cumulative_min(r)
    \/ \E r \in Wrappers : Series_alias(r, "b")
    \/ \E r \in Wrappers, offset \in {-1, 1} : Series_shift(r, offset)
    \/ \E r \in Wrappers, d \in {"float64", "Float64"} : Series_cast(r, d)
    \/ \E r \in Wrappers, sl \in Slices : Series_slice_rows(r, sl)
    \/ \E r \in Wrappers, mask \in Wrappers : Series_filter(r, mask)
    \/ \E r \in Wrappers, indices \in Wrappers : Series_take(r, indices)

Spec == Init /\ [][Next]_vars

---------------------------------------------------------------------------
(* Unsupported methods, the native values and the reflected operators *)

Unsupported == {"__rtruediv__", "__rfloordiv__", "__rpow__", "__rmod__", "unique_indices"}

\* C6: __rtruediv__, __rfloordiv__, __rpow__, __rmod__ and unique_indices
\* fail with NotImplementedError for every operand: no column is returned,
\* the operand is not validated (no ValueError for a column on another
\* index) and the heap is left as it was.
C6_UnsupportedRaise ==
    [][last'.op \in Unsupported =>
            /\ last'.outcome = "NotImplementedError"
            /\ last'.result = 0
            /\ UNCHANGED <<bufs, objs, hist>>]_vars

\* __rtruediv__ was called with a column that validation would reject
C6_Witness ==
    /\ last.op = "__rtruediv__"
    /\ last.arg.col # 0
    /\ ~Comparable(last.recv, last.arg)
    /\ last.outcome = "NotImplementedError"

\* C9: after any sequence of operations, the native value of every wrapper
\* (values, index, name) is the one it was constructed around.
C9_NativeNeverMutated ==
    \A i \in DOMAIN objs : Native(i) = hist[i].made

\* fill_nan has replaced a NaN of an alias, which shares the buffer of the
\* column it renames
C9_Witness ==
    \E i \in Made("alias"), j \in Made("fill_nan") :
        /\ hist[j].recv = i
        /\ objs[i].buf = objs[hist[i].recv].buf
        /\ hist[j].made.vals # hist[i].made.vals

\* the backend operator behind a reflected method
Forward(op) ==
    CASE op = "__radd__" -> "add"
      [] op = "__rsub__" -> "sub"
      [] op = "__rmul__" -> "mul"
      [] op = "__rand__" -> "and"
      [] op = "__ror__"  -> "or"

\* v <op> c, the scalar on the left of every slot
Swapped(op, v, c) ==
    binop(op, [c EXCEPT !.vals = Broadcast(v, Len(c.vals))],
          [vals |-> c.vals, dtype |-> c.dtype])

\* C10: c.__radd__(v), c.__rsub__(v), c.__rmul__(v), c.__rand__(v) and
\* c.__ror__(v) are v + c, v - c, v * c, v & c and v | c slot by slot,
\* under the name of c.
C10_ReflectedSwapsOperands ==
    \A i \in DOMAIN objs :
        hist[i].op \in {"__radd__", "__rsub__", "__rmul__", "__rand__", "__ror__"}
            /\ hist[i].arg.col = 0
        => hist[i].made = Swapped(Forward(hist[i].op), hist[i].arg.sc,
                                  hist[hist[i].recv].made)

\* naive instants: before and after the epoch, with and without a
\* sub-second part, near the epoch and at present-day magnitudes
Instants ==
    {T(-1700000001, 999999999), T(-1, 876543211), T(0, 0), T(0, 123456789),
     T(1, 0), T(1700000000, 999999871), T(1700000000, 999999999), T(1700000001, 0)}

DatetimeColumns ==
    {[vals |-> vs, index |-> RangeIndex(Len(vs)), name |-> "a", dtype |-> "datetime64[ns]"] :
        vs \in SeqsUpTo(Instants, MaxLen)}

InitTime == \E ser \in DatetimeColumns : Construct(ser)

NextTime ==
    \E r \in Wrappers, u \in TimeUnits \cup {"h"} : Series_unix_timestamp(r, u)

SpecTime == InitTime /\ [][NextTime]_vars

---------------------------------------------------------------------------
(* Claims about unix_timestamp *)

\* the integer a Q slot denotes, as whole seconds and the units above them
QNorm(q) ==
    [hi |-> q.n + q.f \div PerSecond(q.s), lo |-> q.f % PerSecond(q.s)]

QLess(a, b) ==
    \/ QNorm(a).hi < QNorm(b).hi
    \/ QNorm(a).hi = QNorm(b).hi /\ QNorm(a).lo < QNorm(b).lo

\* floor(q / 1000), in the next coarser unit
QFloorDiv1000(q) == [hi |-> QNorm(q).hi, lo |-> QNorm(q).lo \div 1000]

\* coarse * 1000 + part, in the next finer unit
QTimes1000Plus(coarse, part) ==
    [hi |-> QNorm(coarse).hi, lo |-> QNorm(coarse).lo * 1000 + part]

TLess(a, b) == a.n < b.n \/ (a.n = b.n /\ a.f < b.f)

\* the part of the instant's sub-second part that the finer unit adds
SubPart(t, fine) ==
    CASE fine = "ms" -> t.f \div 1000000
      [] fine = "us" -> (t.f \div 1000) % 1000
      [] fine = "ns" -> t.f % 1000

Coarser(fine) ==
    CASE fine = "ms" -> "s" [] fine = "us" -> "ms" [] fine = "ns" -> "us"

C5_Increasing ==
    \A i \in Made("unix_timestamp") :
        \A p, q \in DOMAIN Native(i).vals :
            LET c == Native(hist[i].recv).vals
                res == Native(i).vals
            IN TLess(c[p], c[q]) =>
                /\ ~QLess(res[q], res[p])
                /\ hist[i].arg.str = "ns" => QLess(res[p], res[q])

---------------------------------------------------------------------------
(* Series.floor *)

StandardUnits ==
    {"day", "hour", "minute", "second", "millisecond", "microsecond", "nanosecond"}

FrequencyUnits == StandardUnits \cup {"ms", "S"}

NextFloor == \E r \in Wrappers, n \in Counts, unit \in FrequencyUnits : Series_floor(r, n, unit)

SpecFloor == InitTime /\ [][NextFloor]_vars

\* the backend alias of a standard unit name
StandardAlias(unit) ==
    CASE unit = "day" -> "D"
      [] unit = "hour" -> "H"
      [] unit = "minute" -> "T"
      [] unit = "second" -> "S"
      [] unit = "millisecond" -> "ms"
      [] unit = "microsecond" -> "us"
      [] unit = "nanosecond" -> "ns"

\* C11: a frequency '<n><unit>' with a standard unit name reaches the
\* backend as '<n><alias>', day as D, hour as H, minute as T, second as S,
\* millisecond as ms, microsecond as us and nanosecond as ns, and the
\* column is floored to that offset.
C11_FloorTranslatesUnits ==
    last.op = "floor" /\ last.arg.str \in StandardUnits =>
        LET backend == Digits(last.arg.n) \o Characters(StandardAlias(last.arg.str))
        IN /\ floor_frequency(Digits(last.arg.n) \o Characters(last.arg.str)) = backend
           /\ last.outcome = "ok"
           /\ hist[last.result].made = dt_floor(hist[last.recv].made, to_offset(backend))

====
